---- MODULE Spec2Model ----
(***************************************************************************)
(* Model of tts-google (src/unnamed/part_000).  The backend, lines 1-239:  *)
(* the voice directory cache, GET /api/voices and POST /api/synthesize.    *)
(* The client console, lines 241-625: the React component App.             *)
(*                                                                         *)
(* Conventions.                                                            *)
(*  - A JavaScript value that may be undefined/null is a sequence of       *)
(*    length at most one: None is undefined, Some(x) is the value x.       *)
(*  - A voice name is a sequence of one-character strings, so that         *)
(*    String.prototype.includes is a real substring search.                *)
(*  - Date.now() is a millisecond clock.  It is counted from an origin     *)
(*    that lies one TTL before the process starts, so that the initial     *)
(*    cache (atMs = 0) is older than the TTL, as it is with a real epoch   *)
(*    clock.  The clock never runs backwards.                              *)
(*  - Numbers with decimals in the request schema (speakingRate, pitch,    *)
(*    volumeGainDb) are counted in hundredths.                             *)
(*  - A monetary amount is an exact fraction [num, den] in lowest terms;   *)
(*    IEEE-754 rounding of the JavaScript doubles is not represented.      *)
(*  - Each await of the handlers is one step boundary: the code between    *)
(*    two awaits runs atomically (single-threaded event loop).             *)
(*  - In the client, an event handler (or the code after an await), the    *)
(*    renders it causes and the effects of those renders are one step.     *)
(*    The k-th value of crypto.randomUUID() is the number k, so an entry's *)
(*    id also tells when it was made; createdAt and the measured times are *)
(*    left out, and so are play, pause and stop (lines 340-355), which     *)
(*    move the playback position only.                                     *)
(***************************************************************************)
EXTENDS Integers, Sequences, FiniteSets, TLC

VARIABLES
    now,            \* the value Date.now() returns at this instant
    voicesCache,    \* the module-level voicesCache {atMs, voices}
    remoteVoices,   \* what the remote listVoices would answer now (resp.voices)
    slots,          \* the requests being handled: slot -> handler state
    probe,          \* the last direct application of a pure function
    app,            \* the React state of App (its useState cells)
    audio,          \* audioRef.current.src: what the player has loaded
    frames,         \* the requestAnimationFrame callbacks not yet run
    pending,        \* the fetch the client has in flight
    uuids           \* how many times crypto.randomUUID() was called

client == <<app, audio, frames, pending, uuids>>
vars == <<now, voicesCache, remoteVoices, slots, probe, client>>

None == <<>>
Some(x) == <<x>>
Val(o) == o[1]

---------------------------------------------------------------------------
(* Bounds of the model *)

MaxInFlight == 2    \* request slots that may be open at the same time
MaxPeriods == 1     \* the clock runs over MaxPeriods further TTL periods
MaxPieces == 3      \* pieces a generated voice name is concatenated from
MaxFrames == 1      \* requestAnimationFrame callbacks waiting at the same time
MaxEntries == 21    \* syntheses that succeed while the history is observed
MaxFormEntries == 1 \* syntheses that succeed while the form is observed

Slots == 1..MaxInFlight

---------------------------------------------------------------------------
(* Configuration, lines 10-12 *)

VOICES_CACHE_TTL_SEC == 3600
TtlMs == VOICES_CACHE_TTL_SEC * 1000

StartMs == TtlMs
\* the instants the clock is observed at: the start of each period and the
\* millisecond after it, so that ages 0, 1, TTL-1, TTL and TTL+1 all occur
Instants == { StartMs + k * TtlMs + e : k \in 0..MaxPeriods, e \in 0..1 }

---------------------------------------------------------------------------
(* Strings as character sequences *)

\* String.prototype.includes(p) for a non-empty p
Includes(n, p) ==
    \E i \in 1..(Len(n) - Len(p) + 1) : SubSeq(n, i, i + Len(p) - 1) = p

P_Studio == <<"-","S","t","u","d","i","o","-">>
P_Neural2 == <<"-","N","e","u","r","a","l","2","-">>
P_Wavenet == <<"-","W","a","v","e","n","e","t","-">>
P_WaveNet == <<"-","W","a","v","e","N","e","t","-">>
P_Standard == <<"-","S","t","a","n","d","a","r","d","-">>
P_Chirp3HD == <<"C","h","i","r","p","3","-","H","D">>
P_ChirpHD == <<"C","h","i","r","p","-","H","D">>
P_Chirp == <<"-","C","h","i","r","p","-">>
P_Polyglot == <<"-","P","o","l","y","g","l","o","t","-">>

(* Pricing table, lines 24-32 *)
PRICE_PER_1M_USD ==
    ("STANDARD" :> 4) @@ ("WAVENET" :> 4) @@ ("NEURAL2" :> 16) @@ ("STUDIO" :> 160)
    @@ ("CHIRP_HD" :> 30) @@ ("POLYGLOT" :> 16) @@ ("OTHER" :> 16)

Tiers == DOMAIN PRICE_PER_1M_USD

\* mutant: the Neural2 pattern is tested before the Studio pattern
voiceTypeFromName_NeuralFirst(voiceName) ==
    LET n == IF voiceName = None THEN <<>> ELSE Val(voiceName) IN
    IF Includes(n, P_Neural2) THEN "NEURAL2"
    ELSE IF Includes(n, P_Studio) THEN "STUDIO"
    ELSE IF Includes(n, P_Wavenet) \/ Includes(n, P_WaveNet) THEN "WAVENET"
    ELSE IF Includes(n, P_Standard) THEN "STANDARD"
    ELSE IF Includes(n, P_Chirp3HD) \/ Includes(n, P_ChirpHD) \/ Includes(n, P_Chirp)
        THEN "CHIRP_HD"
    ELSE IF Includes(n, P_Polyglot) THEN "POLYGLOT"
    ELSE "OTHER"

(* voiceTypeFromName, lines 34-43; an undefined name takes the default "" *)
voiceTypeFromName(voiceName) ==
    LET n == IF voiceName = None THEN <<>> ELSE Val(voiceName) IN
    IF Includes(n, P_Studio) THEN "STUDIO"
    ELSE IF Includes(n, P_Neural2) THEN "NEURAL2"
    ELSE IF Includes(n, P_Wavenet) \/ Includes(n, P_WaveNet) THEN "WAVENET"
    ELSE IF Includes(n, P_Standard) THEN "STANDARD"
    ELSE IF Includes(n, P_Chirp3HD) \/ Includes(n, P_ChirpHD) \/ Includes(n, P_Chirp)
        THEN "CHIRP_HD"
    ELSE IF Includes(n, P_Polyglot) THEN "POLYGLOT"
    ELSE "OTHER"

---------------------------------------------------------------------------
(* Exact fractions for the JavaScript number arithmetic of estimateCostUsd *)

RECURSIVE Gcd(_, _)
Gcd(a, b) == IF b = 0 THEN a ELSE Gcd(b, a % b)

Frac(n, d) == LET g == Gcd(n, d) IN [num |-> n \div g, den |-> d \div g]
Num(n) == [num |-> n, den |-> 1]
FDiv(a, b) == Frac(a.num * b.den, a.den * b.num)
FMul(a, b) == Frac(a.num * b.num, a.den * b.den)

\* PRICE_PER_1M_USD[voiceType] ?? PRICE_PER_1M_USD.OTHER, lines 46 and 225
RateFor(voiceType) ==
    IF voiceType \in DOMAIN PRICE_PER_1M_USD
        THEN PRICE_PER_1M_USD[voiceType]
        ELSE PRICE_PER_1M_USD["OTHER"]

(* estimateCostUsd, lines 45-48: (per1m / 1_000_000) * charCount *)
estimateCostUsd(voiceType, charCount) ==
    LET per1m == RateFor(voiceType) IN
    FMul(FDiv(Num(per1m), Num(1000000)), Num(charCount))

---------------------------------------------------------------------------
(* Voices cache, lines 50-71 *)

InitialCache == [atMs |-> 0, voices |-> <<>>]

\* mutant: a cache exactly TTL old is still served
CacheHit_AtTtl(cache, t) ==
    Len(cache.voices) # 0 /\ t - cache.atMs <= TtlMs

\* the test of line 58: the cache is served
CacheHit(cache, t) ==
    Len(cache.voices) # 0 /\ t - cache.atMs < TtlMs

\* the map of lines 62-68, for one record of resp.voices
ToVoice(v) ==
    [ name |-> v.name,
      languageCodes |-> IF v.languageCodes = None THEN <<>> ELSE Val(v.languageCodes),
      ssmlGender |-> IF v.ssmlGender = None
                        THEN "SSML_VOICE_GENDER_UNSPECIFIED" ELSE Val(v.ssmlGender),
      naturalSampleRateHertz |-> IF v.naturalSampleRateHertz \in {None, Some(0)}
                        THEN None ELSE v.naturalSampleRateHertz,
      voiceType |-> voiceTypeFromName(v.name) ]

\* (resp.voices || []).map(...), lines 62-68
ToVoices(respVoices) ==
    LET raw == IF respVoices = None THEN <<>> ELSE Val(respVoices) IN
    [i \in 1..Len(raw) |-> ToVoice(raw[i])]

\* mutant: the timestamp is the newer of the cached and the written one, the
\* voices are the written ones
Refreshed_KeepsLatest(t, voices) ==
    [atMs |-> IF voicesCache.atMs > t THEN voicesCache.atMs ELSE t, voices |-> voices]

\* voicesCache = { atMs: now, voices }, line 69
Refreshed(t, voices) == [atMs |-> t, voices |-> voices]

---------------------------------------------------------------------------
(* Request bodies of POST /api/synthesize *)

\* a text is known by the number of its characters outside and inside markup tags
Text(plain, markup) == [plain |-> plain, markup |-> markup]
\* String.prototype.length
StrLen(t) == t.plain + t.markup

\* mutant: the schema puts no upper bound on the text
SchemaErrors_NoMax(body) ==
    { f \in {"inputType", "text", "voiceName", "audioEncoding",
             "speakingRate", "pitch", "volumeGainDb"} :
        \/ f = "inputType" /\ body.inputType # None
              /\ Val(body.inputType) \notin {"text", "ssml"}
        \/ f = "text" /\ (body.text = None
              \/ (body.text # None /\ StrLen(Val(body.text)) < 1))
        \/ f = "voiceName" /\ (body.voiceName = None
              \/ (body.voiceName # None /\ Len(Val(body.voiceName)) < 1))
        \/ f = "audioEncoding" /\ body.audioEncoding # None
              /\ Val(body.audioEncoding) \notin {"MP3", "OGG_OPUS", "LINEAR16", "MULAW"}
        \/ f = "speakingRate" /\ body.speakingRate # None
              /\ (Val(body.speakingRate) < 25 \/ Val(body.speakingRate) > 400)
        \/ f = "pitch" /\ body.pitch # None
              /\ (Val(body.pitch) < -2000 \/ Val(body.pitch) > 2000)
        \/ f = "volumeGainDb" /\ body.volumeGainDb # None
              /\ (Val(body.volumeGainDb) < -9600 \/ Val(body.volumeGainDb) > 1600) }

(* SynthesizeSchema.parse, lines 108-118 and 125: the fields that fail *)
SchemaErrors(body) ==
    { f \in {"inputType", "text", "voiceName", "audioEncoding",
             "speakingRate", "pitch", "volumeGainDb"} :
        \/ f = "inputType" /\ body.inputType # None
              /\ Val(body.inputType) \notin {"text", "ssml"}
        \/ f = "text" /\ (body.text = None
              \/ (body.text # None /\ (StrLen(Val(body.text)) < 1
                                        \/ StrLen(Val(body.text)) > 4000)))
        \/ f = "voiceName" /\ (body.voiceName = None
              \/ (body.voiceName # None /\ Len(Val(body.voiceName)) < 1))
        \/ f = "audioEncoding" /\ body.audioEncoding # None
              /\ Val(body.audioEncoding) \notin {"MP3", "OGG_OPUS", "LINEAR16", "MULAW"}
        \/ f = "speakingRate" /\ body.speakingRate # None
              /\ (Val(body.speakingRate) < 25 \/ Val(body.speakingRate) > 400)
        \/ f = "pitch" /\ body.pitch # None
              /\ (Val(body.pitch) < -2000 \/ Val(body.pitch) > 2000)
        \/ f = "volumeGainDb" /\ body.volumeGainDb # None
              /\ (Val(body.volumeGainDb) < -9600 \/ Val(body.volumeGainDb) > 1600) }

(* SynthesizeSchema.parse, lines 108-118: the parsed value, defaults applied *)
SchemaData(body) ==
    [ inputType |-> IF body.inputType = None THEN "text" ELSE Val(body.inputType),
      text |-> Val(body.text),
      voiceName |-> Val(body.voiceName),
      languageCode |-> body.languageCode,
      audioEncoding |-> IF body.audioEncoding = None THEN "MP3" ELSE Val(body.audioEncoding),
      speakingRate |-> body.speakingRate,
      pitch |-> body.pitch,
      volumeGainDb |-> body.volumeGainDb ]

\* voices.find((v) => v.name === parsed.voiceName), line 127
RECURSIVE FindFrom(_, _, _)
FindFrom(voices, name, i) ==
    IF i > Len(voices) THEN None
    ELSE IF voices[i].name = Some(name) THEN Some(voices[i])
    ELSE FindFrom(voices, name, i + 1)
\* mutant: a name that matches nothing falls back to the first voice
FindVoice_OrFirst(voices, name) ==
    IF FindFrom(voices, name, 1) = None /\ Len(voices) > 0
        THEN Some(voices[1]) ELSE FindFrom(voices, name, 1)

FindVoice(voices, name) == FindFrom(voices, name, 1)

W_Ssml == "Chirp 3: HD voices do not support SSML. Falling back to plain text."
W_Rate == "Chirp 3: HD voices do not support speakingRate. Ignoring."
W_Pitch == "Chirp 3: HD voices do not support pitch. Ignoring."

\* mutant: pitch is neither dropped nor warned about
Downgrade_KeepsPitch(voiceType, parsed) ==
    LET chirp == voiceType = "CHIRP_HD" IN
    [ inputType |-> IF chirp /\ parsed.inputType = "ssml" THEN "text" ELSE parsed.inputType,
      speakingRate |-> IF chirp THEN None ELSE parsed.speakingRate,
      pitch |-> parsed.pitch,
      warnings |->
          (IF chirp /\ parsed.inputType = "ssml" THEN <<W_Ssml>> ELSE <<>>)
          \o (IF chirp /\ parsed.speakingRate # None THEN <<W_Rate>> ELSE <<>>) ]

(* The Chirp 3: HD limitations, lines 134-158 *)
Downgrade(voiceType, parsed) ==
    LET chirp == voiceType = "CHIRP_HD" IN
    [ inputType |-> IF chirp /\ parsed.inputType = "ssml" THEN "text" ELSE parsed.inputType,
      speakingRate |-> IF chirp THEN None ELSE parsed.speakingRate,
      pitch |-> IF chirp THEN None ELSE parsed.pitch,
      warnings |->
          (IF chirp /\ parsed.inputType = "ssml" THEN <<W_Ssml>> ELSE <<>>)
          \o (IF chirp /\ parsed.speakingRate # None THEN <<W_Rate>> ELSE <<>>)
          \o (IF chirp /\ parsed.pitch # None THEN <<W_Pitch>> ELSE <<>>) ]

(* The request sent to synthesizeSpeech, lines 163-175; an omitted key is None *)
BuildRequest(parsed, voice, dg) ==
    [ input |-> [kind |-> IF dg.inputType = "ssml" THEN "ssml" ELSE "text",
                 value |-> parsed.text],
      voice |-> [name |-> parsed.voiceName,
                 languageCode |->
                    IF parsed.languageCode \notin {None, Some("")} THEN parsed.languageCode
                    ELSE IF Len(voice.languageCodes) > 0 THEN Some(voice.languageCodes[1])
                    ELSE None],
      audioConfig |-> [audioEncoding |-> parsed.audioEncoding,
                       speakingRate |-> dg.speakingRate,
                       pitch |-> dg.pitch,
                       volumeGainDb |-> parsed.volumeGainDb] ]

\* Buffer.toString("base64"): sextets 0..63, and 64 for the padding "="
RECURSIVE Base64(_)
Base64(b) ==
    IF Len(b) = 0 THEN <<>>
    ELSE IF Len(b) = 1 THEN
        <<b[1] \div 4, (b[1] % 4) * 16, 64, 64>>
    ELSE IF Len(b) = 2 THEN
        <<b[1] \div 4, (b[1] % 4) * 16 + b[2] \div 16, (b[2] % 16) * 4, 64>>
    ELSE
        <<b[1] \div 4, (b[1] % 4) * 16 + b[2] \div 16,
          (b[2] % 16) * 4 + b[3] \div 64, b[3] % 64>>
        \o Base64(SubSeq(b, 4, Len(b)))

\* response.audioContent?.toString("base64") ?? "", line 181
AudioContent(response) ==
    IF response.audioContent = None THEN <<>> ELSE Base64(Val(response.audioContent))

\* mutant: the empty-audio guard never triggers
IsEmptyString_Never(audioContent) == FALSE

\* if (!audioContent), line 182
IsEmptyString(audioContent) == audioContent = <<>>

\* lines 190-197
MimeType(audioEncoding) ==
    IF audioEncoding = "MP3" THEN "audio/mpeg"
    ELSE IF audioEncoding = "OGG_OPUS" THEN "audio/ogg"
    ELSE IF audioEncoding = "LINEAR16" THEN "audio/wav"
    ELSE "audio/basic"

---------------------------------------------------------------------------
(* Responses *)

SetOf(seq) == { seq[i] : i \in 1..Len(seq) }

\* res.json of GET /api/voices, lines 89-101; languages and voiceTypes are the
\* distinct values (their sorted order is not represented)
VoicesOk(voices, cache) ==
    [ status |-> 200,
      voices |-> voices,
      languages |-> UNION { SetOf(voices[i].languageCodes) : i \in 1..Len(voices) },
      voiceTypes |-> { voices[i].voiceType : i \in 1..Len(voices) },
      cache |-> [ ttlSec |-> VOICES_CACHE_TTL_SEC,
                  cachedAt |-> IF cache.atMs # 0 THEN Some(cache.atMs) ELSE None,
                  count |-> Len(voices) ] ]

\* the catch of GET /api/voices, lines 102-105
VoicesFailed == [status |-> 500, error |-> "Failed to list voices"]

\* line 130
UnknownVoice ==
    [status |-> 400,
     error |-> "Unknown voiceName. Fetch /api/voices and pick one from the list."]

\* lines 182-184
NoAudio == [status |-> 500, error |-> "No audioContent returned by Google TTS."]

\* the status the catch of POST /api/synthesize answers with, line 233
CatchStatus == 400

\* the catch of POST /api/synthesize, lines 230-234; details are the schema's
\* errors (e.errors) or the message of what was thrown
BadRequest(details) == [status |-> CatchStatus, error |-> "Bad request", details |-> details]

\* res.json of POST /api/synthesize, lines 186-229 (the two durations are left out)
SynthOk(parsed, l, audioContent) ==
    [ status |-> 200,
      audio |-> [ base64 |-> audioContent,
                  mimeType |-> MimeType(parsed.audioEncoding),
                  encoding |-> parsed.audioEncoding ],
      voice |-> [ name |-> l.voice.name,
                  voiceType |-> l.voiceType,
                  ssmlGender |-> l.voice.ssmlGender,
                  languageCodes |-> l.voice.languageCodes,
                  naturalSampleRateHertz |-> l.voice.naturalSampleRateHertz ],
      metrics |-> [ input |-> [charCount |-> l.charCount, inputType |-> l.inputType],
                    billingEstimate |->
                        [ currency |-> "USD",
                          estimatedCostUsd |-> estimateCostUsd(l.voiceType, l.charCount),
                          per1MCharactersUsd |-> RateFor(l.voiceType) ] ],
      warnings |-> l.warnings ]

---------------------------------------------------------------------------
(* Handler state.  pc is the await the handler is suspended at:            *)
(*   "listVoices"       ttsClient.listVoices, line 61                      *)
(*   "synthesizeSpeech" ttsClient.synthesizeSpeech, line 178               *)
(*   "done"             the response has been sent                         *)
(* now is the local const now of listVoicesCached (line 57), 0 outside the *)
(* call.  The other                                                        *)
(* fields record what the handler did for its request: fetches and         *)
(* synthCalls count its remote calls; listed is how listVoicesCached went  *)
(* ("hit", or "pending"/"resolved"/"rejected" for the remote listVoices);  *)
(* synth is how synthesizeSpeech went; answer is what it resolved with.    *)

IdleSlot ==
    [ pc |-> "idle", kind |-> "none", now |-> 0, body |-> None,
      fetches |-> 0, synthCalls |-> 0, listed |-> "none", synth |-> "none",
      answer |-> None, local |-> None, response |-> None ]

Free(s) == slots[s].pc \in {"idle", "done"}

\* the response is sent and the handler returns: its local now goes out of scope
Responded(slot, r) == [slot EXCEPT !.pc = "done", !.now = 0, !.response = Some(r)]

\* mutant: the characters of markup tags are not counted
CharCount_PlainOnly(parsed) == parsed.text.plain

\* const charCount = parsed.text.length, line 161
CharCount(parsed) == StrLen(parsed.text)

(* POST /api/synthesize from the directory to the remote call, lines 127-178 *)
SynthLookup(slot, voices) ==
    LET parsed == SchemaData(Val(slot.body))
        voice == FindVoice(voices, parsed.voiceName)
    IN  IF voice = None THEN Responded(slot, UnknownVoice)
        ELSE
            LET voiceType == Val(voice).voiceType
                dg == Downgrade(voiceType, parsed)
            IN  [slot EXCEPT
                    !.pc = "synthesizeSpeech",
                    !.synthCalls = @ + 1,
                    !.synth = "pending",
                    !.local = Some([ voice |-> Val(voice),
                                     voiceType |-> voiceType,
                                     inputType |-> dg.inputType,
                                     warnings |-> dg.warnings,
                                     charCount |-> CharCount(parsed),
                                     request |-> BuildRequest(parsed, Val(voice), dg) ])]

(* GET /api/voices arrives: lines 85-87 and listVoicesCached, lines 56-61 *)
GetVoices(s) ==
    /\ Free(s)
    /\ LET slot == [IdleSlot EXCEPT !.kind = "voices", !.now = now] IN
       slots' = [slots EXCEPT ![s] =
            IF CacheHit(voicesCache, now)
                THEN Responded([slot EXCEPT !.listed = "hit"],
                               VoicesOk(voicesCache.voices, voicesCache))
                ELSE [slot EXCEPT !.pc = "listVoices", !.fetches = @ + 1,
                                  !.listed = "pending"]]
    /\ UNCHANGED <<now, voicesCache, remoteVoices, probe, client>>

(* POST /api/synthesize arrives: lines 120-126 and listVoicesCached, lines 56-61 *)
PostSynthesize(s, body) ==
    /\ Free(s)
    /\ LET slot == [IdleSlot EXCEPT !.kind = "synthesize", !.now = now,
                                    !.body = Some(body)]
           errors == SchemaErrors(body)
       IN  slots' = [slots EXCEPT ![s] =
                IF errors # {} THEN Responded(slot, BadRequest(errors))
                ELSE IF CacheHit(voicesCache, now)
                    THEN SynthLookup([slot EXCEPT !.listed = "hit"], voicesCache.voices)
                ELSE [slot EXCEPT !.pc = "listVoices", !.fetches = @ + 1,
                                  !.listed = "pending"]]
    /\ UNCHANGED <<now, voicesCache, remoteVoices, probe, client>>

(* ttsClient.listVoices resolves: lines 61-70, then the caller goes on *)
ListVoicesReturn(s) ==
    /\ slots[s].pc = "listVoices"
    /\ LET voices == ToVoices(remoteVoices)
           cache == Refreshed(slots[s].now, voices)
           slot == [slots[s] EXCEPT !.listed = "resolved"]
       IN  /\ voicesCache' = cache
           /\ slots' = [slots EXCEPT ![s] =
                IF slot.kind = "voices"
                    THEN Responded(slot, VoicesOk(voices, cache))
                    ELSE SynthLookup(slot, voices)]
    /\ UNCHANGED <<now, remoteVoices, probe, client>>

\* mutant: when the fetch fails, GET /api/voices serves the stale cache
ListVoicesThrow_ServeStale(s) ==
    /\ slots[s].pc = "listVoices"
    /\ LET slot == [slots[s] EXCEPT !.listed = "rejected"] IN
       slots' = [slots EXCEPT ![s] =
            IF slot.kind = "voices"
                THEN Responded(slot, VoicesOk(voicesCache.voices, voicesCache))
                ELSE Responded(slot, BadRequest("listVoices failed"))]
    /\ UNCHANGED <<now, voicesCache, remoteVoices, probe, client>>

(* ttsClient.listVoices rejects: the catch of the caller, lines 102-105, 230-234 *)
ListVoicesThrow(s) ==
    /\ slots[s].pc = "listVoices"
    /\ LET slot == [slots[s] EXCEPT !.listed = "rejected"] IN
       slots' = [slots EXCEPT ![s] =
            IF slot.kind = "voices"
                THEN Responded(slot, VoicesFailed)
                ELSE Responded(slot, BadRequest("listVoices failed"))]
    /\ UNCHANGED <<now, voicesCache, remoteVoices, probe, client>>

(* ttsClient.synthesizeSpeech resolves with response: lines 178-229 *)
SynthesizeSpeechReturn(s, response) ==
    /\ slots[s].pc = "synthesizeSpeech"
    /\ LET audioContent == AudioContent(response)
           slot == [slots[s] EXCEPT !.synth = "resolved", !.answer = Some(response)]
       IN  slots' = [slots EXCEPT ![s] =
            IF IsEmptyString(audioContent)
                THEN Responded(slot, NoAudio)
                ELSE Responded(slot,
                        SynthOk(SchemaData(Val(slot.body)), Val(slot.local),
                                audioContent))]
    /\ UNCHANGED <<now, voicesCache, remoteVoices, probe, client>>

(* ttsClient.synthesizeSpeech rejects: the catch, lines 230-234 *)
SynthesizeSpeechThrow(s) ==
    /\ slots[s].pc = "synthesizeSpeech"
    /\ slots' = [slots EXCEPT ![s] =
            Responded([slots[s] EXCEPT !.synth = "rejected"],
                      BadRequest("synthesizeSpeech failed"))]
    /\ UNCHANGED <<now, voicesCache, remoteVoices, probe, client>>

(* Environment: time passes *)
Tick(t) ==
    /\ t > now
    /\ now' = t
    /\ UNCHANGED <<voicesCache, remoteVoices, slots, probe, client>>

(* Environment: the remote service changes the voices it lists *)
RemoteUpdate(listing) ==
    /\ listing # remoteVoices
    /\ remoteVoices' = listing
    /\ UNCHANGED <<now, voicesCache, slots, probe, client>>

---------------------------------------------------------------------------
(* The client console: the state of App, lines 260-286 *)

server == <<now, voicesCache, remoteVoices, slots, probe>>

\* useState("Hello! This is a quick test of Google Text-to-Speech."), line 280
DefaultText ==
    <<"H","e","l","l","o","!"," ","T","h","i","s"," ","i","s"," ","a"," ",
      "q","u","i","c","k"," ","t","e","s","t"," ","o","f"," ",
      "G","o","o","g","l","e"," ","T","e","x","t","-","t","o","-",
      "S","p","e","e","c","h",".">>

\* the useState cells, lines 263-282.  voiceName and text are character
\* sequences ("" is <<>>); the two number inputs hold what was typed, None for
\* an emptied field; audioDuration (line 284) is only displayed and left out
InitialApp ==
    [ loading |-> FALSE, bootError |-> "", error |-> "",
      voices |-> <<>>, languages |-> <<>>, voiceTypes |-> <<>>,
      language |-> "en-US", voiceType |-> "CHIRP_HD", voiceName |-> <<>>,
      audioEncoding |-> "MP3", inputType |-> "text",
      speakingRate |-> Some(100), pitch |-> Some(0),
      text |-> DefaultText, result |-> None, history |-> <<>> ]

\* fetch("/api/voices"), line 292
VoicesRequest == [url |-> "/api/voices", body |-> None]

\* fetch("/api/synthesize", {method: "POST", body: JSON.stringify(payload)}), lines 373-377
SynthesizeRequest(payload) == [url |-> "/api/synthesize", body |-> Some(payload)]

\* no browser has loaded the page
NoPage ==
    /\ app = None
    /\ audio = None
    /\ frames = <<>>
    /\ pending = None
    /\ uuids = 0

\* App after its first render and its mount effects: the boot effect
\* (lines 288-311) has issued its fetch, the two other effects changed nothing
InitClient ==
    /\ app = InitialApp
    /\ audio = None
    /\ frames = <<>>
    /\ pending = Some(VoicesRequest)
    /\ uuids = 0

---------------------------------------------------------------------------
(* The client console: what a render computes *)

\* line 286
isChirp(a) == a.voiceType = "CHIRP_HD"

WhiteSpace == {" ", "\n", "\t"}

RECURSIVE TrimStart(_)
TrimStart(t) ==
    IF t # <<>> /\ Head(t) \in WhiteSpace THEN TrimStart(Tail(t)) ELSE t

RECURSIVE TrimEnd(_)
TrimEnd(t) ==
    IF t # <<>> /\ t[Len(t)] \in WhiteSpace
        THEN TrimEnd(SubSeq(t, 1, Len(t) - 1)) ELSE t

\* String.prototype.trim
Trim(t) == TrimEnd(TrimStart(t))

\* the collation of the characters voice names are written with: the hyphen
\* and the digits come before the letters; a letter's case counts only
\* between strings that are otherwise equal, lower case first
Symbols == <<"-","0","1","2","3","4","5","6","7","8","9">>
Lower == <<"a","b","c","d","e","f","g","h","i","j","k","l","m",
           "n","o","p","q","r","s","t","u","v","w","x","y","z">>
Upper == <<"A","B","C","D","E","F","G","H","I","J","K","L","M",
           "N","O","P","Q","R","S","T","U","V","W","X","Y","Z">>

IndexIn(seq, c) ==
    IF \E i \in DOMAIN seq : seq[i] = c
        THEN CHOOSE i \in DOMAIN seq : seq[i] = c ELSE 0

Weight(c, level) ==
    IF level = 1
        THEN IF IndexIn(Symbols, c) > 0 THEN IndexIn(Symbols, c)
             ELSE IF IndexIn(Lower, c) + IndexIn(Upper, c) > 0
                THEN Len(Symbols) + IndexIn(Lower, c) + IndexIn(Upper, c)
             ELSE 0
        ELSE IF IndexIn(Upper, c) > 0 THEN 1 ELSE 0

RECURSIVE CompareFrom(_, _, _, _)
CompareFrom(a, b, i, level) ==
    IF i > Len(a) /\ i > Len(b) THEN 0
    ELSE IF i > Len(a) THEN -1
    ELSE IF i > Len(b) THEN 1
    ELSE IF a[i] = b[i] THEN CompareFrom(a, b, i + 1, level)
    ELSE IF Weight(a[i], level) < Weight(b[i], level) THEN -1
    ELSE IF Weight(a[i], level) > Weight(b[i], level) THEN 1
    ELSE CompareFrom(a, b, i + 1, level)

\* a.localeCompare(b), line 317: negative, zero or positive
localeCompare(a, b) ==
    IF CompareFrom(a, b, 1, 1) # 0 THEN CompareFrom(a, b, 1, 1)
    ELSE CompareFrom(a, b, 1, 2)

\* Array.prototype.sort with the comparator of line 317; the sort is stable
RECURSIVE InsertByName(_, _)
InsertByName(v, sorted) ==
    IF sorted = <<>> THEN <<v>>
    ELSE IF localeCompare(Val(v.name), Val(Head(sorted).name)) <= 0 THEN <<v>> \o sorted
    ELSE <<Head(sorted)>> \o InsertByName(v, Tail(sorted))

RECURSIVE SortByName(_)
SortByName(vs) ==
    IF vs = <<>> THEN <<>> ELSE InsertByName(Head(vs), SortByName(Tail(vs)))

\* the useMemo of lines 313-318
filteredVoices(a) ==
    LET InLanguage(v) ==
            IF a.language # "" THEN a.language \in SetOf(v.languageCodes) ELSE TRUE
        InType(v) == IF a.voiceType # "" THEN v.voiceType = a.voiceType ELSE TRUE
    IN  SortByName(SelectSeq(SelectSeq(a.voices, InLanguage), InType))

\* the options of the voice select, lines 460-464
VoiceOptions(a) ==
    { Val(filteredVoices(a)[i].name) : i \in 1..Len(filteredVoices(a)) }

\* the useMemo of lines 336-338
canGenerate(a) == ~a.loading /\ Trim(a.text) # <<>> /\ a.voiceName # <<>>

\* Number(x) of what a number input holds, line 367: Number("") is 0
NumberOf(x) == IF x = None THEN 0 ELSE Val(x)

\* the payload of generate, lines 361-368; a key left out is None
Payload(a) ==
    [ inputType |-> a.inputType,
      text |-> Trim(a.text),
      voiceName |-> a.voiceName,
      languageCode |-> a.language,
      audioEncoding |-> a.audioEncoding,
      speakingRate |-> IF isChirp(a) THEN None ELSE Some(NumberOf(a.speakingRate)),
      pitch |-> IF isChirp(a) THEN None ELSE Some(NumberOf(a.pitch)) ]

\* the effect of lines 320-325, run after a render that changed
\* filteredVoices or voiceName
VoiceNameEffect(a) ==
    LET fv == filteredVoices(a) IN
    IF fv = <<>> THEN a
    ELSE IF \E i \in 1..Len(fv) : fv[i].name = Some(a.voiceName) THEN a
    ELSE [a EXCEPT !.voiceName = Val(fv[1].name)]

\* the effect of lines 327-334, run after a render that changed isChirp
ChirpEffect(prev, a) ==
    IF isChirp(a) /\ ~isChirp(prev)
        THEN [a EXCEPT !.inputType = "text", !.speakingRate = Some(100),
                       !.pitch = Some(0)]
        ELSE a

\* the state once the renders and effects that follow an update have settled:
\* prev is the state of the render before the update, next the updated state
Effects(prev, next) == ChirpEffect(prev, VoiceNameEffect(next))

\* the form is on the page, lines 428-436
Rendered(a) == a.bootError = ""

\* audioRef.current is the <audio> element, lines 539-551
Mounted(a) == Rendered(a) /\ a.result # None

\* `data:${data.audio.mimeType};base64,${data.audio.base64}`, line 382
DataUrl(audioOf) == [mimeType |-> audioOf.mimeType, base64 |-> audioOf.base64]

\* the length history is cut to, line 394
HistoryLimit == 20

\* mutant: the history is not cut
Prepended_NoSlice(entry, h) == <<entry>> \o h

\* [entry, ...h].slice(0, 20), line 394
Prepended(entry, h) ==
    LET all == <<entry>> \o h IN
    SubSeq(all, 1, IF Len(all) < HistoryLimit THEN Len(all) ELSE HistoryLimit)

---------------------------------------------------------------------------
(* The client console: its handlers.  A handler, the renders it causes and  *)
(* the effects of those renders are one step.                               *)

(* The boot effect after its fetch answered 200, lines 293-305 *)
BootResolves(data) ==
    /\ pending = Some(VoicesRequest)
    /\ pending' = None
    /\ LET hasChirp == \E i \in 1..Len(data.voices) : data.voices[i].voiceType = "CHIRP_HD"
           defaultType ==
                IF hasChirp THEN Some("CHIRP_HD")
                ELSE IF "NEURAL2" \in SetOf(data.voiceTypes) THEN Some("NEURAL2")
                ELSE IF data.voiceTypes # <<>> THEN Some(data.voiceTypes[1])
                ELSE None
           defaultLang ==
                IF "en-US" \in SetOf(data.languages) THEN Some("en-US")
                ELSE IF data.languages # <<>> THEN Some(data.languages[1])
                ELSE None
           next == [app EXCEPT
                        !.bootError = "",
                        !.voices = data.voices,
                        !.languages = data.languages,
                        !.voiceTypes = data.voiceTypes,
                        !.voiceType = IF defaultType = None THEN "NEURAL2"
                                      ELSE Val(defaultType),
                        !.language = IF defaultLang = None THEN "en-US"
                                     ELSE Val(defaultLang)]
       IN  app' = Effects(app, next)
    /\ UNCHANGED <<server, audio, frames, uuids>>

(* The boot effect when its fetch threw or answered another status, lines 293, 307-309 *)
BootRejects(message) ==
    /\ pending = Some(VoicesRequest)
    /\ pending' = None
    /\ app' = [app EXCEPT !.bootError = message]
    /\ UNCHANGED <<server, audio, frames, uuids>>

(* The language select, lines 441-445 *)
setLanguage(l) ==
    /\ Rendered(app)
    /\ l \in SetOf(app.languages)
    /\ app' = Effects(app, [app EXCEPT !.language = l])
    /\ UNCHANGED <<server, audio, frames, pending, uuids>>

(* The voice type select, lines 450-454 *)
setVoiceType(t) ==
    /\ Rendered(app)
    /\ t \in SetOf(app.voiceTypes)
    /\ app' = Effects(app, [app EXCEPT !.voiceType = t])
    /\ UNCHANGED <<server, audio, frames, pending, uuids>>

(* The voice select, lines 459-465 *)
setVoiceName(n) ==
    /\ Rendered(app)
    /\ n \in VoiceOptions(app)
    /\ app' = Effects(app, [app EXCEPT !.voiceName = n])
    /\ UNCHANGED <<server, audio, frames, pending, uuids>>

(* The encoding select, lines 472-477 *)
setAudioEncoding(e) ==
    /\ Rendered(app)
    /\ e \in {"MP3", "OGG_OPUS", "LINEAR16", "MULAW"}
    /\ app' = [app EXCEPT !.audioEncoding = e]
    /\ UNCHANGED <<server, audio, frames, pending, uuids>>

(* The input type select, lines 482-485 *)
setInputType(t) ==
    /\ Rendered(app)
    /\ ~isChirp(app)
    /\ t \in {"text", "ssml"}
    /\ app' = [app EXCEPT !.inputType = t]
    /\ UNCHANGED <<server, audio, frames, pending, uuids>>

(* The speaking rate input, lines 492-500 *)
setSpeakingRate(x) ==
    /\ Rendered(app)
    /\ ~isChirp(app)
    /\ app' = [app EXCEPT !.speakingRate = x]
    /\ UNCHANGED <<server, audio, frames, pending, uuids>>

(* The pitch input, lines 501-509 *)
setPitch(x) ==
    /\ Rendered(app)
    /\ ~isChirp(app)
    /\ app' = [app EXCEPT !.pitch = x]
    /\ UNCHANGED <<server, audio, frames, pending, uuids>>

(* The textarea, line 517 *)
setText(t) ==
    /\ Rendered(app)
    /\ app' = [app EXCEPT !.text = t]
    /\ UNCHANGED <<server, audio, frames, pending, uuids>>

(* The Clear button, line 524 *)
Clear ==
    /\ Rendered(app)
    /\ ~app.loading
    /\ app' = [app EXCEPT !.text = <<>>]
    /\ UNCHANGED <<server, audio, frames, pending, uuids>>

(* The Generate button or the Enter key, lines 357-377, 410-416, 521 *)
generate ==
    /\ Rendered(app)
    /\ canGenerate(app)
    /\ pending' = Some(SynthesizeRequest(Payload(app)))
    /\ app' = [app EXCEPT !.error = "", !.loading = TRUE]
    /\ UNCHANGED <<server, audio, frames, uuids>>

(* generate after its fetch answered 200 with data, lines 378-402, 405-407 *)
SynthesizeResolves(data, limit) ==
    /\ pending # None
    /\ Val(pending).url = "/api/synthesize"
    /\ uuids < limit
    /\ Len(frames) < MaxFrames
    /\ LET audioSrc == DataUrl(data.audio)
           entry == [id |-> uuids + 1, audioSrc |-> audioSrc, data |-> data]
       IN  /\ app' = [app EXCEPT !.result = Some(entry),
                                 !.history = Prepended(entry, @),
                                 !.loading = FALSE]
           /\ frames' = Append(frames, audioSrc)
    /\ uuids' = uuids + 1
    /\ pending' = None
    /\ UNCHANGED <<server, audio>>

(* generate when its fetch threw or answered another status, lines 378-380, 403-407 *)
SynthesizeRejects(message) ==
    /\ pending # None
    /\ Val(pending).url = "/api/synthesize"
    /\ app' = [app EXCEPT !.error = message, !.loading = FALSE]
    /\ pending' = None
    /\ UNCHANGED <<server, audio, frames, uuids>>

(* The Load button of the i-th line of the history, lines 601-611 *)
LoadHistory(i) ==
    /\ Rendered(app)
    /\ i \in 1..Len(app.history)
    /\ Len(frames) < MaxFrames
    /\ app' = [app EXCEPT !.result = Some(app.history[i])]
    /\ frames' = Append(frames, app.history[i].audioSrc)
    /\ UNCHANGED <<server, audio, pending, uuids>>

(* The browser runs the oldest requestAnimationFrame callback, lines 397-402, 605-610 *)
AnimationFrame ==
    /\ frames # <<>>
    /\ audio' = IF Mounted(app) THEN Some(Head(frames)) ELSE audio
    /\ frames' = Tail(frames)
    /\ UNCHANGED <<server, app, pending, uuids>>

---------------------------------------------------------------------------
(* The environment of the server specification *)

Chars_enUS == <<"e","n","-","U","S">>
N_StandardA == Chars_enUS \o P_Standard \o <<"A">>
N_ChirpK == Chars_enUS \o <<"-">> \o P_Chirp3HD \o <<"-","K">>
N_NewsK == Chars_enUS \o <<"-","N","e","w","s","-","K">>
N_StudioO == Chars_enUS \o P_Studio \o <<"O">>

RawStandardA ==
    [ name |-> Some(N_StandardA), languageCodes |-> Some(<<"en-US">>),
      ssmlGender |-> Some("FEMALE"), naturalSampleRateHertz |-> Some(24000) ]
RawChirpK ==
    [ name |-> Some(N_ChirpK), languageCodes |-> Some(<<"en-US", "en-GB">>),
      ssmlGender |-> None, naturalSampleRateHertz |-> None ]
RawNewsK ==
    [ name |-> Some(N_NewsK), languageCodes |-> None,
      ssmlGender |-> Some("MALE"), naturalSampleRateHertz |-> Some(0) ]

DirectoryAll == <<RawStandardA, RawChirpK, RawNewsK>>

\* what listVoices may answer: two directories, an empty one, and no voices field
Listings ==
    { Some(DirectoryAll), Some(<<RawStandardA>>), Some(<<>>), None }

\* what synthesizeSpeech may answer
AudioResponses ==
    { [audioContent |-> None], [audioContent |-> Some(<<>>)],
      [audioContent |-> Some(<<255>>)], [audioContent |-> Some(<<1, 2, 3, 4>>)] }

BaseBody ==
    [ inputType |-> Some("text"), text |-> Some(Text(5, 0)),
      voiceName |-> Some(N_StandardA), languageCode |-> None,
      audioEncoding |-> Some("MP3"), speakingRate |-> None, pitch |-> None,
      volumeGainDb |-> None ]

\* the bodies sent while requests overlap
Bodies ==
    { BaseBody,
      [BaseBody EXCEPT !.voiceName = Some(N_ChirpK), !.inputType = Some("ssml"),
                       !.text = Some(Text(5, 15)), !.speakingRate = Some(100)] }

Init ==
    /\ now = StartMs
    /\ voicesCache = InitialCache
    /\ remoteVoices = Some(DirectoryAll)
    /\ slots = [s \in Slots |-> IdleSlot]
    /\ probe = None
    /\ NoPage

(* The server with overlapping requests *)
Next ==
    \/ \E s \in Slots : GetVoices(s)
    \/ \E s \in Slots, body \in Bodies : PostSynthesize(s, body)
    \/ \E s \in Slots : ListVoicesReturn(s)
    \/ \E s \in Slots : ListVoicesThrow(s)
    \/ \E s \in Slots : SynthesizeSpeechReturn(s, [audioContent |-> Some(<<255>>)])
    \/ \E s \in Slots : SynthesizeSpeechThrow(s)
    \/ \E t \in Instants : Tick(t)
    \/ \E l \in Listings : RemoteUpdate(l)

Spec == Init /\ [][Next]_vars

---------------------------------------------------------------------------
(* Overlapping GET /api/voices requests only *)

VoiceListings == { Some(DirectoryAll), Some(<<RawStandardA>>) }

NextVoices ==
    \/ \E s \in Slots : GetVoices(s)
    \/ \E s \in Slots : ListVoicesReturn(s)
    \/ \E s \in Slots : ListVoicesThrow(s)
    \/ \E t \in Instants : Tick(t)
    \/ \E l \in VoiceListings : RemoteUpdate(l)

SpecVoices == Init /\ [][NextVoices]_vars

---------------------------------------------------------------------------
(* One synthesis request at a time, over a wide range of request bodies *)

\* BaseBody with one field varied over the values around each schema rule
OneFieldBodies ==
    { [BaseBody EXCEPT !.inputType = v] :
        v \in {None, Some("text"), Some("ssml"), Some("html")} }
    \cup { [BaseBody EXCEPT !.text = v] :
        v \in {None, Some(Text(0, 0)), Some(Text(1, 0)), Some(Text(4000, 0)),
               Some(Text(4001, 0)), Some(Text(3985, 15)), Some(Text(3986, 15))} }
    \cup { [BaseBody EXCEPT !.voiceName = v] :
        v \in {None, Some(<<>>), Some(N_StandardA), Some(N_ChirpK), Some(N_NewsK),
               Some(N_StudioO)} }
    \cup { [BaseBody EXCEPT !.languageCode = v] : v \in {None, Some(""), Some("en-GB")} }
    \cup { [BaseBody EXCEPT !.audioEncoding = v] :
        v \in {None, Some("MP3"), Some("OGG_OPUS"), Some("LINEAR16"), Some("MULAW"),
               Some("ALAW")} }
    \cup { [BaseBody EXCEPT !.speakingRate = v] :
        v \in {Some(24), Some(25), Some(100), Some(400), Some(401)} }
    \cup { [BaseBody EXCEPT !.pitch = v] :
        v \in {Some(-2001), Some(-2000), Some(0), Some(2000), Some(2001)} }
    \cup { [BaseBody EXCEPT !.volumeGainDb = v] :
        v \in {Some(-9601), Some(-9600), Some(0), Some(1600), Some(1601)} }

\* every combination of input mode and prosody fields, for a voice of each tier
ProsodyBodies ==
    { [BaseBody EXCEPT !.inputType = Some(m), !.text = Some(Text(5, IF m = "ssml" THEN 15 ELSE 0)),
                       !.voiceName = Some(n), !.speakingRate = r, !.pitch = p,
                       !.volumeGainDb = g] :
        m \in {"text", "ssml"}, n \in {N_StandardA, N_ChirpK, N_NewsK},
        r \in {None, Some(100)}, p \in {None, Some(0)}, g \in {None, Some(0)} }

\* bodies that break a schema rule and name a voice that is in no directory
BrokenBodies ==
    { [BaseBody EXCEPT !.voiceName = Some(N_StudioO), !.text = Some(Text(4001, 0))],
      [BaseBody EXCEPT !.voiceName = Some(N_StudioO), !.pitch = Some(2001),
                       !.audioEncoding = Some("ALAW")] }

WideBodies == OneFieldBodies \cup ProsodyBodies \cup BrokenBodies

SynthListings == { Some(DirectoryAll), Some(<<RawStandardA>>) }

NextSynth ==
    \/ \E body \in WideBodies : PostSynthesize(1, body)
    \/ ListVoicesReturn(1)
    \/ ListVoicesThrow(1)
    \/ \E r \in AudioResponses : SynthesizeSpeechReturn(1, r)
    \/ SynthesizeSpeechThrow(1)
    \/ \E t \in Instants : Tick(t)
    \/ \E l \in SynthListings : RemoteUpdate(l)

SpecSynth == Init /\ [][NextSynth]_vars

---------------------------------------------------------------------------
(* Cost accounting: synthesis over texts and tiers, and estimateCostUsd itself *)

CostBodies ==
    { [BaseBody EXCEPT !.inputType = Some(m), !.text = Some(t), !.voiceName = Some(n)] :
        m \in {"text", "ssml"},
        t \in {Text(1, 0), Text(5, 0), Text(5, 15), Text(0, 15), Text(3985, 15)},
        n \in {N_StandardA, N_ChirpK, N_NewsK} }

\* estimateCostUsd applied directly
EstimateCost(voiceType, charCount) ==
    /\ probe' = Some([ voiceType |-> voiceType, charCount |-> charCount,
                       usd |-> estimateCostUsd(voiceType, charCount) ])
    /\ UNCHANGED <<now, voicesCache, remoteVoices, slots, client>>

NextCost ==
    \/ \E body \in CostBodies : PostSynthesize(1, body)
    \/ ListVoicesReturn(1)
    \/ \E r \in AudioResponses : SynthesizeSpeechReturn(1, r)
    \/ \E vt \in Tiers \cup {"UNKNOWN"}, n \in {0, 1, 5, 4000, 1000000} :
            EstimateCost(vt, n)

SpecCost == Init /\ [][NextCost]_vars

---------------------------------------------------------------------------
(* Classification: GET /api/voices over a directory of one generated name *)

Pieces ==
    { P_Studio, P_Neural2, P_Wavenet, P_WaveNet, P_Standard, P_Chirp3HD, P_ChirpHD,
      P_Chirp, P_Polyglot,
      <<"S","t","u","d","i","o">>, <<"-","s","t","u","d","i","o","-">>,
      <<"-","N","e","u","r","a","l","-">>, <<"C","h","i","r","p">>, <<"-","H","D">>,
      <<"-">>, <<"e","n">> }

RECURSIVE NamesOf(_)
NamesOf(k) ==
    IF k = 0 THEN { <<>> }
    ELSE LET shorter == NamesOf(k - 1) IN
         shorter \cup { n \o p : n \in shorter, p \in Pieces }

GeneratedNames == NamesOf(MaxPieces)

RawNamed(n) ==
    [ name |-> Some(n), languageCodes |-> Some(<<"en-US">>),
      ssmlGender |-> None, naturalSampleRateHertz |-> None ]

InitClassify ==
    /\ now = StartMs
    /\ voicesCache = InitialCache
    /\ remoteVoices \in { Some(<<RawNamed(n)>>) : n \in GeneratedNames }
    /\ slots = [s \in Slots |-> IdleSlot]
    /\ probe = None
    /\ NoPage

NextClassify ==
    \/ GetVoices(1)
    \/ ListVoicesReturn(1)

SpecClassify == InitClassify /\ [][NextClassify]_vars

---------------------------------------------------------------------------
(* The environment of the client specifications *)

\* Array.prototype.sort() of lines 89-90 orders strings by their code units;
\* this is that order on the strings the directories hold
CodeUnitOrder ==
    <<"CHIRP_HD", "NEURAL2", "OTHER", "POLYGLOT", "STANDARD", "STUDIO", "WAVENET",
      "en-GB", "en-US">>

Sorted(S) ==
    LET Member(x) == x \in S IN SelectSeq(CodeUnitOrder, Member)

\* what res.json() of GET /api/voices gives the client, lines 92-95; the
\* client does not read the cache field
VoicesData(listing) ==
    LET r == VoicesOk(ToVoices(listing), InitialCache) IN
    [ voices |-> r.voices,
      languages |-> Sorted(r.languages),
      voiceTypes |-> Sorted(r.voiceTypes) ]

\* what res.json() of POST /api/synthesize gives the client, lines 186-193, for
\* a payload and the synthesized bytes; the client only displays the other fields
SynthData(payload, bytes) ==
    [ audio |-> [ base64 |-> Base64(bytes),
                  mimeType |-> MimeType(payload.audioEncoding),
                  encoding |-> payload.audioEncoding ] ]

\* the answer to the request in flight: every synthesis yields another audio
SynthAnswers ==
    IF pending = None \/ Val(pending).body = None THEN {}
    ELSE { SynthData(Val(Val(pending).body), <<uuids + 1>>) }

\* the messages of `voices failed: ${res.status}` (line 293) and of the
\* errors of lines 182-184
BootErrors == { "voices failed: 500" }
SynthErrors == { "No audioContent returned by Google TTS." }

\* the server is up and a browser has loaded the page
InitPage ==
    /\ now = StartMs
    /\ voicesCache = InitialCache
    /\ remoteVoices = Some(DirectoryAll)
    /\ slots = [s \in Slots |-> IdleSlot]
    /\ probe = None
    /\ InitClient

(* The history and the player: one directory, and of the form the text only *)
HistoryListings == { Some(<<RawStandardA>>) }

NextHistory ==
    \/ \E l \in HistoryListings : BootResolves(VoicesData(l))
    \/ \E t \in { <<" ", "H", "i", " ">> } : setText(t)
    \/ Clear
    \/ generate
    \/ \E data \in SynthAnswers : SynthesizeResolves(data, MaxEntries)
    \/ \E m \in SynthErrors : SynthesizeRejects(m)
    \/ \E i \in 1..HistoryLimit : LoadHistory(i)
    \/ AnimationFrame

SpecHistory == InitPage /\ [][NextHistory]_vars

(* The form: three directories and every select and number input *)
N_StandardB == Chars_enUS \o P_Standard \o <<"B">>
RawStandardB ==
    [ name |-> Some(N_StandardB), languageCodes |-> Some(<<"en-US">>),
      ssmlGender |-> Some("MALE"), naturalSampleRateHertz |-> Some(24000) ]

FormListings ==
    { Some(<<RawStandardB, RawStandardA, RawChirpK>>), Some(<<RawStandardA>>),
      Some(<<>>) }

NextForm ==
    \/ \E l \in FormListings : BootResolves(VoicesData(l))
    \/ \E m \in BootErrors : BootRejects(m)
    \/ \E l \in SetOf(CodeUnitOrder) : setLanguage(l)
    \/ \E t \in SetOf(CodeUnitOrder) : setVoiceType(t)
    \/ \E n \in VoiceOptions(app) : setVoiceName(n)
    \/ \E e \in {"MP3", "LINEAR16"} : setAudioEncoding(e)
    \/ \E t \in {"text", "ssml"} : setInputType(t)
    \/ \E x \in {Some(150)} : setSpeakingRate(x)
    \/ \E x \in {Some(200)} : setPitch(x)
    \/ generate
    \/ \E data \in SynthAnswers : SynthesizeResolves(data, MaxFormEntries)
    \/ \E m \in SynthErrors : SynthesizeRejects(m)
    \/ AnimationFrame

SpecForm == InitPage /\ [][NextForm]_vars

---------------------------------------------------------------------------
(* Properties *)

\* a new request arrives at slot s in this step
Starts(s) == Free(s) /\ slots'[s] # slots[s]

\* the request of this slot calls getVoices(): GET /api/voices always does, POST
\* /api/synthesize once its body has passed the schema
CallsGetVoices(slot) ==
    \/ slot.kind = "voices"
    \/ slot.kind = "synthesize" /\ SchemaErrors(Val(slot.body)) = {}

NamesOfVoices(voices) == [i \in 1..Len(voices) |-> voices[i].name]

\* C1: a getVoices() call made while the cached directory is younger than the TTL
\* makes no remote fetch, leaves the cache alone and returns the cached set,
\* whatever the cached directory holds (an empty directory too).
C1_FreshCacheIsServed ==
    [][\A s \in Slots :
        (/\ Starts(s)
         /\ CallsGetVoices(slots'[s])
         /\ voicesCache.atMs # 0
         /\ now - voicesCache.atMs < TtlMs)
        => /\ slots'[s].fetches = 0
           /\ slots'[s].pc # "listVoices"
           /\ voicesCache' = voicesCache
           /\ slots'[s].kind = "voices"
                => /\ slots'[s].pc = "done"
                   /\ Val(slots'[s].response).status = 200
                   /\ Val(slots'[s].response).voices = voicesCache.voices]_vars

\* C2: a getVoices() call made when the cache is TTL old or older issues one remote
\* fetch, never a second one; when the fetch succeeds the cache is replaced by the
\* voices just listed, stamped with the time of the call, and the caller gets them.
C2_ExpiredCacheIsRefetched ==
    [][\A s \in Slots :
        /\ (/\ Starts(s)
            /\ CallsGetVoices(slots'[s])
            /\ now - voicesCache.atMs >= TtlMs)
           => /\ slots'[s].pc = "listVoices"
              /\ slots'[s].fetches = 1
              /\ slots'[s].now = now
              /\ voicesCache' = voicesCache
        /\ (slots[s].pc = "listVoices" /\ slots'[s].listed = "resolved")
           => /\ slots'[s].fetches = 1
              /\ voicesCache'.atMs = slots[s].now
              /\ NamesOfVoices(voicesCache'.voices)
                    = NamesOfVoices(IF remoteVoices = None THEN <<>> ELSE Val(remoteVoices))
              /\ slots'[s].kind = "voices"
                    => /\ Val(slots'[s].response).status = 200
                       /\ Val(slots'[s].response).voices = voicesCache'.voices
        /\ slots'[s].fetches <= 1]_vars

\* C2 witness: a directory fetched at the start was answered from the cache, and a
\* call made exactly one TTL later has refreshed it
C2_Witness ==
    \E s, r \in Slots :
        /\ slots[r].pc = "done" /\ slots[r].kind = "voices"
        /\ slots[r].listed = "hit"
        /\ Val(slots[r].response).cache.cachedAt = Some(StartMs)
        /\ slots[s].pc = "done" /\ slots[s].kind = "voices"
        /\ slots[s].listed = "resolved" /\ slots[s].fetches = 1
        /\ Val(slots[s].response).cache.cachedAt = Some(StartMs + TtlMs)
        /\ voicesCache.atMs = StartMs + TtlMs
        /\ Len(voicesCache.voices) = 1

\* C3: when the remote fetch of a getVoices() call fails, the call fails: the
\* request is answered with an error that carries no voices, no synthesis is
\* attempted, and the cache keeps its voices and its timestamp.
C3_FailedFetchFailsTheCall ==
    [][\A s \in Slots :
        (slots[s].pc = "listVoices" /\ slots'[s].listed = "rejected")
        => /\ voicesCache' = voicesCache
           /\ slots'[s].pc = "done"
           /\ Val(slots'[s].response).status >= 400
           /\ "voices" \notin DOMAIN Val(slots'[s].response)
           /\ "audio" \notin DOMAIN Val(slots'[s].response)
           /\ slots'[s].synthCalls = 0]_vars

\* C3 witness: a fetch failed while a stale, non-empty directory was cached
C3_Witness ==
    \E s \in Slots :
        /\ slots[s].pc = "done" /\ slots[s].listed = "rejected"
        /\ Val(slots[s].response).status = 500
        /\ Len(voicesCache.voices) > 0
        /\ now - voicesCache.atMs >= TtlMs

\* the names of the voices in the cached directory
CachedNames == { voicesCache.voices[i].name : i \in 1..Len(voicesCache.voices) }

\* the request of slot s has been given a directory by getVoices()
HasDirectory(slot) == slot.kind = "synthesize" /\ slot.listed \in {"hit", "resolved"}

\* C4: POST /synthesize answers every remote failure (the synthesis call throws, or
\* the voice-directory fetch fails) with HTTP 500, and answers 400 only when the
\* request failed validation or voice lookup.
C4_RemoteFailureIs500 ==
    \A s \in Slots :
        (slots[s].pc = "done" /\ slots[s].kind = "synthesize")
        => LET remoteFailed ==
                   slots[s].listed = "rejected" \/ slots[s].synth = "rejected"
           IN  /\ remoteFailed => Val(slots[s].response).status = 500
               /\ Val(slots[s].response).status = 400 => ~remoteFailed

\* C5: a synthesis request whose voiceName names no voice of the directory it was
\* given is answered 400, and synthesizeSpeech is never called for it.  (With one
\* request at a time the cache still holds the directory the request was given.)
C5_UnknownVoiceRejected ==
    \A s \in Slots :
        (HasDirectory(slots[s]) /\ Val(slots[s].body).voiceName \notin CachedNames)
        => /\ slots[s].pc = "done"
           /\ Val(slots[s].response).status = 400
           /\ slots[s].synthCalls = 0
           /\ slots[s].synth = "none"

\* C5 witness: a voice the service no longer lists was asked for, after a refresh
C5_Witness ==
    \E s \in Slots :
        /\ slots[s].pc = "done" /\ slots[s].listed = "resolved"
        /\ Val(slots[s].body).voiceName = Some(N_ChirpK)
        /\ CachedNames = {Some(N_StandardA)}
        /\ Val(slots[s].response).status = 400

\* an optional number given outside lo..hi (hundredths)
OutOfRange(o, lo, hi) == o # None /\ (Val(o) < lo \/ Val(o) > hi)

\* the validation rules of a synthesis request that need no directory: input mode,
\* text of 1..4000 characters, a voice identifier, encoding, rate 0.25..4,
\* pitch -20..20, gain -96..16
BreaksARule(body) ==
    \/ body.inputType \notin {None, Some("text"), Some("ssml")}
    \/ body.text = None
    \/ body.text # None /\ Val(body.text).plain + Val(body.text).markup \notin 1..4000
    \/ body.voiceName \in {None, Some(<<>>)}
    \/ body.audioEncoding
          \notin {None, Some("MP3"), Some("OGG_OPUS"), Some("LINEAR16"), Some("MULAW")}
    \/ OutOfRange(body.speakingRate, 25, 400)
    \/ OutOfRange(body.pitch, -2000, 2000)
    \/ OutOfRange(body.volumeGainDb, -9600, 1600)

\* C6 as stated: a request that fails any rule, the directory match included, causes
\* no remote call (voice listing or synthesis) and leaves the voice cache unchanged.
C6_EveryRuleBeforeAnyRemoteCall ==
    [][\A s \in Slots :
        (/\ slots'[s] # slots[s]
         /\ slots'[s].kind = "synthesize"
         /\ slots'[s].pc = "done"
         /\ \/ BreaksARule(Val(slots'[s].body))
            \/ /\ HasDirectory(slots'[s])
               /\ Val(slots'[s].body).voiceName
                    \notin { voicesCache'.voices[i].name : i \in 1..Len(voicesCache'.voices) })
        => /\ slots'[s].fetches = 0
           /\ slots'[s].synthCalls = 0
           /\ voicesCache' = voicesCache]_vars

\* C6 (amended): a request that breaks a schema rule is answered 400 at once, with
\* no remote call and the cache unchanged; a request that names a voice missing from
\* the directory is answered 400 with no synthesis call, after at most one fetch.
C6_SchemaBeforeAnyRemoteCall ==
    [][\A s \in Slots :
        (slots'[s] # slots[s] /\ slots'[s].kind = "synthesize")
        => /\ BreaksARule(Val(slots'[s].body))
                => /\ Starts(s)
                   /\ slots'[s].pc = "done"
                   /\ Val(slots'[s].response).status = 400
                   /\ slots'[s].fetches = 0
                   /\ slots'[s].synthCalls = 0
                   /\ voicesCache' = voicesCache
           /\ (/\ HasDirectory(slots'[s])
               /\ Val(slots'[s].body).voiceName
                    \notin { voicesCache'.voices[i].name : i \in 1..Len(voicesCache'.voices) })
                => /\ slots'[s].pc = "done"
                   /\ Val(slots'[s].response).status = 400
                   /\ slots'[s].fetches <= 1
                   /\ slots'[s].synthCalls = 0]_vars

\* C6 witness: an over-long text was rejected, with no fetch, while no directory
\* was cached
C6_Witness ==
    \E s \in Slots :
        /\ slots[s].pc = "done" /\ slots[s].kind = "synthesize"
        /\ Val(slots[s].body).text = Some(Text(4001, 0))
        /\ Val(slots[s].response).status = 400
        /\ slots[s].fetches = 0
        /\ voicesCache = InitialCache

\* the downgrades a CHIRP_HD voice forces on a submitted body
SubmittedMode(body) == IF body.inputType = None THEN "text" ELSE Val(body.inputType)
DowngradeCount(body) ==
    (IF SubmittedMode(body) = "ssml" THEN 1 ELSE 0)
    + (IF body.speakingRate # None THEN 1 ELSE 0)
    + (IF body.pitch # None THEN 1 ELSE 0)

\* C7: for a CHIRP_HD voice the forwarded request carries plain text, no
\* speakingRate and no pitch, keeps volumeGainDb, and there is one warning per
\* downgraded parameter; for any other tier the forwarded request carries the
\* submitted mode and prosody fields and there is no warning; when the remote call
\* returns audio the request succeeds and the response lists those warnings.
C7_CapabilityDowngrade ==
    \A s \in Slots :
        slots[s].synthCalls > 0
        => LET body == Val(slots[s].body)
               l == Val(slots[s].local)
               req == l.request
           IN  /\ req.input.value = Val(body.text)
               /\ req.audioConfig.volumeGainDb = body.volumeGainDb
               /\ l.voice.voiceType = "CHIRP_HD"
                    => /\ req.input.kind = "text"
                       /\ req.audioConfig.speakingRate = None
                       /\ req.audioConfig.pitch = None
                       /\ Len(l.warnings) = DowngradeCount(body)
                       /\ Cardinality(SetOf(l.warnings)) = DowngradeCount(body)
               /\ l.voice.voiceType # "CHIRP_HD"
                    => /\ req.input.kind = SubmittedMode(body)
                       /\ req.audioConfig.speakingRate = body.speakingRate
                       /\ req.audioConfig.pitch = body.pitch
                       /\ l.warnings = <<>>
               /\ (/\ slots[s].pc = "done" /\ slots[s].synth = "resolved"
                   /\ Val(slots[s].answer).audioContent \notin {None, Some(<<>>)})
                    => /\ Val(slots[s].response).status = 200
                       /\ Val(slots[s].response).warnings = l.warnings
                       /\ Val(slots[s].response).metrics.input.inputType = req.input.kind

\* C7 witness: markup with rate, pitch and gain was sent to a CHIRP_HD voice and
\* succeeded with three warnings
C7_Witness ==
    \E s \in Slots :
        /\ slots[s].pc = "done"
        /\ Val(slots[s].response).status = 200
        /\ Val(slots[s].response).voice.voiceType = "CHIRP_HD"
        /\ Val(slots[s].body).inputType = Some("ssml")
        /\ Val(slots[s].body).speakingRate # None
        /\ Val(slots[s].body).pitch # None
        /\ Val(slots[s].body).volumeGainDb # None
        /\ Len(Val(slots[s].response).warnings) = 3

\* C8: a synthesis whose remote call returns missing or zero-length audio is
\* answered 500, and every 200 response of POST /synthesize carries audio.
C8_EmptyAudioIsAFailure ==
    \A s \in Slots :
        (slots[s].pc = "done" /\ slots[s].kind = "synthesize")
        => /\ (/\ slots[s].synth = "resolved"
               /\ Val(slots[s].answer).audioContent \in {None, Some(<<>>)})
                => Val(slots[s].response).status = 500
           /\ Val(slots[s].response).status = 200
                => /\ Len(Val(slots[s].response).audio.base64) > 0
                   /\ slots[s].synth = "resolved"
                   /\ Val(slots[s].answer).audioContent \notin {None, Some(<<>>)}

\* C8 witness: the remote call returned zero bytes and the request was answered 500
C8_Witness ==
    \E s \in Slots :
        /\ slots[s].pc = "done"
        /\ slots[s].answer = Some([audioContent |-> Some(<<>>)])
        /\ Val(slots[s].response).status = 500

\* the rate the pricing table gives a tier, the OTHER rate for a tier it lacks
TableRate(tier) ==
    IF tier \in {"STANDARD", "WAVENET", "NEURAL2", "STUDIO", "CHIRP_HD", "POLYGLOT", "OTHER"}
        THEN PRICE_PER_1M_USD[tier] ELSE PRICE_PER_1M_USD["OTHER"]

PatternOrder ==
    << {P_Studio}, {P_Neural2}, {P_Wavenet, P_WaveNet}, {P_Standard},
       {P_Chirp3HD, P_ChirpHD, P_Chirp}, {P_Polyglot} >>
TierOrder == <<"STUDIO", "NEURAL2", "WAVENET", "STANDARD", "CHIRP_HD", "POLYGLOT">>

FirstPatternTier(n) ==
    LET hits == { i \in 1..Len(PatternOrder) : \E p \in PatternOrder[i] : Includes(n, p) }
    IN  IF hits = {} THEN "OTHER"
        ELSE TierOrder[CHOOSE i \in hits : \A j \in hits : i <= j]

\* C10: the tier stored for every voice of the directory is that of the first
\* pattern its name contains, in the order Studio, Neural, Wavenet, Standard, Chirp,
\* Polyglot, and OTHER when it contains none; a name containing -Studio- is STUDIO
\* whatever else it contains.
C10_TierIsFirstPattern ==
    \A i \in 1..Len(voicesCache.voices) :
        LET v == voicesCache.voices[i]
            n == Val(v.name)
        IN  /\ v.voiceType = FirstPatternTier(n)
            /\ Includes(n, P_Studio) => v.voiceType = "STUDIO"
            /\ \A s \in Slots :
                (slots[s].pc = "done" /\ slots[s].listed = "resolved")
                => Val(slots[s].response).voices[i].voiceType = FirstPatternTier(n)

\* C10 witness: a cached voice whose name holds the Neural2 pattern, then the
\* Studio pattern, is STUDIO
C10_Witness ==
    \E i \in 1..Len(voicesCache.voices) :
        /\ Includes(Val(voicesCache.voices[i].name), P_Neural2 \o P_Studio)
        /\ voicesCache.voices[i].voiceType = "STUDIO"

---------------------------------------------------------------------------
(* The client's history *)

\* the client's fetch of /api/synthesize is answered in this step
SynthAnswered ==
    /\ pending # None
    /\ Val(pending).url = "/api/synthesize"
    /\ pending' = None

MostRecentFirst(h) == \A i \in 1..(Len(h) - 1) : h[i].id > h[i + 1].id

\* C11: the history holds at most 20 entries, most recent first.  A successful
\* synthesis puts exactly one new entry in front of the others and drops the
\* oldest one if that makes 21; a failed synthesis leaves the history as it
\* was.  A click on a line of the history issues no request, leaves the
\* history as it was and asks the player to load the audio stored in that
\* line, and what the player is asked to load is what it loads.
C11_History ==
    /\ [](Len(app.history) <= 20 /\ MostRecentFirst(app.history))
    /\ [][ /\ (SynthAnswered /\ app'.error = "") =>
                LET h == app.history
                    g == app'.history
                IN  /\ Len(g) = IF Len(h) < 20 THEN Len(h) + 1 ELSE 20
                    /\ \A i \in 1..Len(h) : g[1].id # h[i].id
                    /\ \A i \in 2..Len(g) : g[i] = h[i - 1]
           /\ (SynthAnswered /\ app'.error # "") => app'.history = app.history
           /\ (Len(frames') > Len(frames) /\ ~SynthAnswered) =>
                /\ app'.history = app.history
                /\ pending' = pending
                /\ \E i \in 1..Len(app.history) :
                        /\ app'.result = Some(app.history[i])
                        /\ frames'[Len(frames')] = app.history[i].audioSrc
           /\ Len(frames') < Len(frames) => audio' = Some(frames[1])
         ]_vars

\* 21 syntheses succeeded, the oldest entry is gone, the player has loaded the
\* oldest entry left after a click on it, and a later synthesis failed
C11_Witness ==
    /\ uuids = 21
    /\ Len(app.history) = 20
    /\ app.history[1].id = 21
    /\ app.history[20].id = 2
    /\ app.result = Some(app.history[20])
    /\ audio = Some(app.history[20].audioSrc)
    /\ app.error # ""

---------------------------------------------------------------------------
(* Overlapping refreshes of the voice cache *)

\* the listVoices call of slot s resolves in this step
Refreshes(s) == slots[s].pc = "listVoices" /\ slots'[s].listed = "resolved"

\* C12: a getVoices() call that finds the cache expired issues its own fetch,
\* whatever the other calls are doing.  A call whose fetch succeeds answers
\* with the whole voice set of that fetch and leaves in the cache that voice
\* set together with its own timestamp; no other step changes the cache, so
\* the cache is always the pair one refresh wrote, the last one to complete.
C12_ConcurrentRefresh ==
    [][ /\ \A s \in Slots :
            (Starts(s) /\ CallsGetVoices(slots'[s]) /\ ~CacheHit(voicesCache, now))
                => slots'[s].pc = "listVoices" /\ slots'[s].fetches = 1
        /\ \A s \in Slots :
            Refreshes(s) =>
                /\ voicesCache'.atMs = slots[s].now
                /\ voicesCache'.voices = ToVoices(remoteVoices)
                /\ slots'[s].kind = "voices" =>
                        /\ Val(slots'[s].response).status = 200
                        /\ Val(slots'[s].response).voices = voicesCache'.voices
                        /\ Val(slots'[s].response).cache.count
                                = Len(voicesCache'.voices)
        /\ (\A s \in Slots : ~Refreshes(s)) => voicesCache' = voicesCache
      ]_vars

\* two calls found the cache expired at the same instant, each fetched, the
\* remote directory changed between the two answers, and the cache holds what
\* the second call fetched
C12_Witness ==
    /\ \A s \in {1, 2} :
            /\ slots[s].pc = "done"
            /\ slots[s].kind = "voices"
            /\ slots[s].listed = "resolved"
            /\ slots[s].fetches = 1
    /\ Val(slots[1].response).cache.cachedAt = Val(slots[2].response).cache.cachedAt
    /\ Val(slots[1].response).voices # Val(slots[2].response).voices
    /\ voicesCache.voices = Val(slots[2].response).voices

\* C13: no write to the voice cache stores a timestamp smaller than the one
\* it replaces.
C13_TimestampNeverMovesBack ==
    [][voicesCache'.atMs >= voicesCache.atMs]_vars

---------------------------------------------------------------------------
(* What the client submits *)

\* the client issues its fetch of /api/synthesize in this step
Submits ==
    /\ pending = None
    /\ pending' # None
    /\ Val(pending').url = "/api/synthesize"

\* C14: whenever the client submits a synthesis request, the languageCode it
\* sends is the selected language, the voiceName it sends names a voice of the
\* loaded directory whose tier is the selected voice type and whose language
\* tags include the selected language, and if that voice is a CHIRP_HD voice
\* the request has input type text and neither speakingRate nor pitch.
C14_SubmittedVoiceFitsTheForm ==
    [][ Submits =>
            LET p == Val(Val(pending').body)
                named == { i \in 1..Len(app.voices) :
                                app.voices[i].name = Some(p.voiceName) }
            IN  /\ p.languageCode = app.language
                /\ named # {}
                /\ \A i \in named :
                        /\ app.voices[i].voiceType = app.voiceType
                        /\ app.language \in SetOf(app.voices[i].languageCodes)
                        /\ app.voices[i].voiceType = "CHIRP_HD" =>
                                /\ p.inputType = "text"
                                /\ p.speakingRate = None
                                /\ p.pitch = None
      ]_vars

====
